---------------------------- MODULE Spec2Model ----------------------------
(***************************************************************************)
(* Model of src/src/main.rs: a single-threaded TCP listener.  main binds   *)
(* a listener and, for every incoming connection, calls handle_connnection *)
(* synchronously.  The handler reads once into a 512-byte buffer, compares *)
(* the buffer's leading bytes with b"GET / HTTP/1.1\r\n", loads one of two *)
(* files, writes "HTTP/1.1 {status}\r\n\r\n{contents}" with one write call *)
(* and flushes.  Every Result is unwrap()ped: an Err panics the only       *)
(* thread and the process ends.                                            *)
(*                                                                         *)
(* Bytes are integers 0..255, byte strings are sequences of them.          *)
(***************************************************************************)
EXTENDS Integers, Sequences, FiniteSets

(***************************************************************************)
(* Bounds of the model.                                                    *)
(***************************************************************************)
\* Number of client connections made during a run.
MaxConns == 2
\* Number of times the files on disk are changed during a run.
MaxFileChanges == 1

Conns == 1..MaxConns

(***************************************************************************)
(* Program constants.                                                      *)
(***************************************************************************)
\* let mut buffer = [0; 512];
BufSize == 512

\* let get = b"GET / HTTP/1.1\r\n";
get == <<71, 69, 84, 32, 47, 32, 72, 84, 84, 80, 47, 49, 46, 49, 13, 10>>

\* "200 OK"
Status200 == <<50, 48, 48, 32, 79, 75>>
\* "404 NOT FOUND"
Status404 == <<52, 48, 52, 32, 78, 79, 84, 32, 70, 79, 85, 78, 68>>

HelloPath == "html/hello.html"
NotFoundPath == "html/404.html"
Paths == {HelloPath, NotFoundPath}

\* The value of a local that does not exist (outside its scope).
None == <<>>

(***************************************************************************)
(* Pure functions of the handler.                                          *)
(***************************************************************************)
Min(a, b) == IF a < b THEN a ELSE b

\* A buffer that is not cleared and still holds an earlier request.
ZeroBuffer_stale == [i \in 1..BufSize |-> IF i <= Len(get) THEN get[i] ELSE 0]

\* [0; 512]
ZeroBuffer == [i \in 1..BufSize |-> 0]

\* stream.read(&mut buffer) returning Ok(n): the first n bytes of the
\* buffer are overwritten with the first n bytes of the data, the rest of
\* the buffer keeps what it held.
ReadInto(buf, data, n) ==
    [i \in 1..Len(buf) |-> IF i <= n THEN data[i] ELSE buf[i]]

\* A variant of the prefix test that demands the whole request to be the
\* pattern (the byte after the pattern must be the buffer's zero fill).
starts_with_exact(buf, pat) ==
    /\ Len(buf) >= Len(pat)
    /\ \A i \in 1..Len(pat) : buf[i] = pat[i]
    /\ (Len(buf) > Len(pat) => buf[Len(pat) + 1] = 0)

\* A variant of the prefix test that looks at the method only.
starts_with_method(buf, pat) ==
    /\ Len(buf) >= 3
    /\ \A i \in 1..3 : buf[i] = pat[i]

\* <[u8]>::starts_with
starts_with(buf, pat) ==
    /\ Len(buf) >= Len(pat)
    /\ \A i \in 1..Len(pat) : buf[i] = pat[i]

\* let (status, filename) = if buffer.starts_with(get) {..} else {..};
Classify(buf) ==
    IF starts_with(buf, get)
    THEN [status |-> Status200, filename |-> HelloPath]
    ELSE [status |-> Status404, filename |-> NotFoundPath]

\* A status line formatted with a Content-Type header before the blank line.
StatusLineWithHeader(st) ==
    <<72, 84, 84, 80, 47, 49, 46, 49, 32>> \o st \o <<13, 10>>
        \o <<67, 58, 32, 120>> \o <<13, 10, 13, 10>>

\* format!("HTTP/1.1 {}\r\n\r\n", status)
StatusLine(st) ==
    <<72, 84, 84, 80, 47, 49, 46, 49, 32>> \o st \o <<13, 10, 13, 10>>

\* format!("{}{}", status_line, contents)
Compose(sl, body) == sl \o body

(***************************************************************************)
(* Files.  A file is missing or holds bytes; fs::read_to_string fails on a *)
(* missing file and on bytes that are not UTF-8.                           *)
(***************************************************************************)
Missing == [present |-> FALSE, bytes |-> <<>>]
File(b) == [present |-> TRUE, bytes |-> b]

IsCont(b) == b >= 128 /\ b <= 191

\* core::str::from_utf8's acceptance, on the encodings of one to four bytes.
RECURSIVE Utf8Valid(_)
Utf8Valid(s) ==
    IF s = <<>> THEN TRUE
    ELSE LET b == s[1]
             n == Len(s)
         IN  IF b < 128 THEN Utf8Valid(Tail(s))
             ELSE IF b >= 194 /\ b <= 223
             THEN n >= 2 /\ IsCont(s[2]) /\ Utf8Valid(SubSeq(s, 3, n))
             ELSE IF b >= 224 /\ b <= 239
             THEN /\ n >= 3 /\ IsCont(s[2]) /\ IsCont(s[3])
                  /\ (b = 224 => s[2] >= 160)
                  /\ (b = 237 => s[2] <= 159)
                  /\ Utf8Valid(SubSeq(s, 4, n))
             ELSE IF b >= 240 /\ b <= 244
             THEN /\ n >= 4 /\ IsCont(s[2]) /\ IsCont(s[3]) /\ IsCont(s[4])
                  /\ (b = 240 => s[2] >= 144)
                  /\ (b = 244 => s[2] <= 143)
                  /\ Utf8Valid(SubSeq(s, 5, n))
             ELSE FALSE

\* A load that never fails (a missing or damaged file reads as it is).
ReadToStringOk_lenient(f) == TRUE

\* fs::read_to_string(filename): Ok(contents) or Err.
ReadToStringOk(f) == f.present /\ Utf8Valid(f.bytes)

(***************************************************************************)
(* The environment's inputs.                                               *)
(***************************************************************************)
Pad(n) == [i \in 1..n |-> 65]

\* "Host: x\r\n\r\n"
HostHeader == <<72, 111, 115, 116, 58, 32, 120, 13, 10, 13, 10>>

\* Byte strings a client sends.  The empty one is a client that closes
\* without sending: the read returns Ok(0).
Requests ==
    { <<>>,
      get,
      get \o HostHeader,
      \* a partial request: the pattern without its last byte
      SubSeq(get, 1, Len(get) - 1),
      get \o Pad(BufSize - Len(get)),
      get \o Pad(BufSize),
      \* "POST / HTTP/1.1\r\n\r\n"
      <<80, 79, 83, 84, 32, 47, 32, 72, 84, 84, 80, 47, 49, 46, 49, 13, 10,
        13, 10>>,
      \* "GET /index.html HTTP/1.1\r\n"
      <<71, 69, 84, 32, 47, 105, 110, 100, 101, 120, 46, 104, 116, 109, 108,
        32, 72, 84, 84, 80, 47, 49, 46, 49, 13, 10>>,
      \* "GET / HTTP/1.0\r\n"
      <<71, 69, 84, 32, 47, 32, 72, 84, 84, 80, 47, 49, 46, 48, 13, 10>> }

\* The counts one read call may return for data sent by the client: 0 at
\* end of stream, otherwise at least one byte and at most what the buffer
\* holds.  TCP may deliver less than what was sent; the short deliveries
\* drawn are those that cut a request inside or right after the pattern.
ReadLens(data) ==
    IF data = <<>> THEN {0}
    ELSE LET m == Min(Len(data), BufSize)
         IN  {m} \cup {k \in {Len(get) - 1, Len(get)} :
                          k < m /\ SubSeq(data, 1, k) = SubSeq(get, 1, k)}

\* The counts one write call may return for a buffer of len bytes: Ok(n)
\* with 0 < n <= len (io::Write::write makes one attempt and may accept
\* only a part of the buffer).
WriteLens(len) == {len} \cup {k \in {len - 1} : 0 < k}

\* "Hi", "Ho", "No", and a byte string that is not UTF-8.
FileChoices(path) ==
    IF path = HelloPath
    THEN {Missing, File(<<72, 105>>), File(<<72, 111>>), File(<<255>>)}
    ELSE {Missing, File(<<78, 111>>)}

(***************************************************************************)
(* State.                                                                  *)
(***************************************************************************)
VARIABLES
    pc,             \* where the only thread is
    cause,          \* which unwrap() panicked, "" while the process runs
    backlog,        \* connections waiting in the listener's queue, oldest first
    connected,      \* number of connections clients have made
    disk,           \* the two files
    changes,        \* number of changes made to the files
    stream,         \* handle_connnection's stream: a connection, or 0
    buffer,         \* handle_connnection's locals, None outside their scope
    status,
    filename,
    status_line,
    contents,
    response,
    open,           \* per connection: the server's end is open
    trace,          \* per connection: the stages it went through
    received,       \* per connection: the bytes its read call returned
    statusOf,       \* per connection: the status selected for it
    responseOf,     \* per connection: the response composed for it
    diskAt,         \* per connection: each file its handler read, as it was
                    \* on disk at that time (Missing for a file not read)
    delivered,      \* per connection: the bytes the socket accepted
    writes,         \* per connection: number of write calls that returned Ok
    inbox,          \* per connection: what its client has sent and the
                    \* server has not read, and whether the client closed
    reads,          \* per connection: number of read calls that returned Ok
    fileReads,      \* per connection and file: number of read_to_string calls
    acceptedOrder,  \* connections in the order they were accepted
    respondedOrder  \* connections in the order they were written to

locals == <<buffer, status, filename, status_line, contents, response>>
history == <<received, statusOf, responseOf, diskAt, delivered, writes>>
counters == <<reads, fileReads>>
vars == <<pc, cause, backlog, connected, disk, changes, stream, locals,
          open, trace, history, acceptedOrder, respondedOrder, inbox,
          counters>>

\* A socket on which nothing waits to be read and which the client has not
\* closed.
Quiet == [data |-> <<>>, fin |-> FALSE]

Init ==
    /\ pc = "bind"
    /\ cause = ""
    /\ backlog = <<>>
    /\ connected = 0
    /\ disk = [p \in Paths |->
                 IF p = HelloPath THEN File(<<72, 105>>) ELSE File(<<78, 111>>)]
    /\ changes = 0
    /\ stream = 0
    /\ buffer = None /\ status = None /\ filename = "" /\ status_line = None
    /\ contents = None /\ response = None
    /\ open = [c \in Conns |-> FALSE]
    /\ trace = [c \in Conns |-> <<>>]
    /\ received = [c \in Conns |-> <<>>]
    /\ statusOf = [c \in Conns |-> None]
    /\ responseOf = [c \in Conns |-> None]
    /\ diskAt = [c \in Conns |-> [p \in Paths |-> Missing]]
    /\ delivered = [c \in Conns |-> <<>>]
    /\ writes = [c \in Conns |-> 0]
    /\ inbox = [c \in Conns |-> Quiet]
    /\ reads = [c \in Conns |-> 0]
    /\ fileReads = [c \in Conns |-> [p \in Paths |-> 0]]
    /\ acceptedOrder = <<>>
    /\ respondedOrder = <<>>

(***************************************************************************)
(* Control flow.                                                           *)
(***************************************************************************)
\* A handler that goes back to reading after the flush (a keep-alive loop).
Succ_keepalive(p) ==
    CASE p = "read" -> "classify"
      [] p = "classify" -> "load"
      [] p = "load" -> "write"
      [] p = "write" -> "flush"
      [] p = "flush" -> "read"
      [] p = "return" -> "accept"

\* A handler that writes to the stream before it loads the file.
Succ_writefirst(p) ==
    CASE p = "read" -> "classify"
      [] p = "classify" -> "write"
      [] p = "write" -> "load"
      [] p = "load" -> "flush"
      [] p = "flush" -> "return"
      [] p = "return" -> "accept"

\* A handler that calls read a second time before it classifies.
Succ_readagain(p) ==
    CASE p = "read" -> IF reads[stream] = 0 THEN "read" ELSE "classify"
      [] p = "classify" -> "load"
      [] p = "load" -> "write"
      [] p = "write" -> "flush"
      [] p = "flush" -> "return"
      [] p = "return" -> "accept"

\* The statement that follows statement p of handle_connnection when p
\* succeeds; after the handler's end the for loop asks for the next stream.
Succ(p) ==
    CASE p = "read" -> "classify"
      [] p = "classify" -> "load"
      [] p = "load" -> "write"
      [] p = "write" -> "flush"
      [] p = "flush" -> "return"
      [] p = "return" -> "accept"

\* A server that drops the failing connection and goes on with the loop.
PanicPc_recover == "accept"

\* Result::unwrap on an Err: the only thread panics and the process ends.
PanicPc == "aborted"

\* A loop that takes the next stream while the handler is still reading.
AcceptReady_concurrent == pc \in {"accept", "read"}

\* The for loop asks listener.incoming() for the next stream only between
\* two calls of handle_connnection.
AcceptReady == pc = "accept"

\* A flush that reports an error.
FlushOk_fallible == FALSE

\* TcpStream's flush does nothing and returns Ok(()).
FlushOk == TRUE

\* The panic unwinds the stack: the locals, the stream and the listener are
\* dropped, which closes every socket of the process.
Panic(what) ==
    /\ pc' = PanicPc
    /\ cause' = what
    /\ stream' = 0
    /\ buffer' = None /\ status' = None /\ filename' = ""
    /\ status_line' = None /\ contents' = None /\ response' = None
    /\ open' = [c \in Conns |-> FALSE]
    /\ inbox' = [c \in Conns |-> Quiet]

(***************************************************************************)
(* main                                                                    *)
(***************************************************************************)
\* TcpListener::bind("127.0.0.1:7878") returns Ok.
Bind ==
    /\ pc = "bind"
    /\ pc' = "accept"
    /\ UNCHANGED <<cause, backlog, connected, disk, changes, stream, locals,
                   open, trace, history, acceptedOrder, respondedOrder>>
    /\ UNCHANGED <<inbox, counters>>

\* TcpListener::bind returns Err.
BindFail ==
    /\ pc = "bind"
    /\ Panic("bind")
    /\ UNCHANGED <<backlog, connected, disk, changes, trace, history,
                   acceptedOrder, respondedOrder>>
    /\ UNCHANGED counters

\* A client connects to the listening socket.
Connect ==
    /\ pc # "bind"
    /\ cause = ""
    /\ connected < MaxConns
    /\ connected' = connected + 1
    /\ backlog' = Append(backlog, connected + 1)
    /\ UNCHANGED <<pc, cause, disk, changes, stream, locals, open, trace,
                   history, acceptedOrder, respondedOrder>>
    /\ UNCHANGED <<inbox, counters>>

\* listener.incoming() yields Ok(stream), the oldest waiting connection, and
\* handle_connnection(stream) is entered: let mut buffer = [0; 512].
Accept ==
    /\ AcceptReady
    /\ backlog # <<>>
    /\ LET c == Head(backlog)
       IN  /\ stream' = c
           /\ backlog' = Tail(backlog)
           /\ open' = [open EXCEPT ![c] = TRUE]
           /\ trace' = [trace EXCEPT ![c] = <<"Accepted">>]
           /\ acceptedOrder' = Append(acceptedOrder, c)
    /\ buffer' = ZeroBuffer
    /\ pc' = "read"
    /\ UNCHANGED <<cause, connected, disk, changes, status, filename,
                   status_line, contents, response, history, respondedOrder>>
    /\ UNCHANGED <<inbox, counters>>

\* listener.incoming() yields Err.
AcceptFail ==
    /\ AcceptReady
    /\ Panic("accept")
    /\ UNCHANGED <<backlog, connected, disk, changes, trace, history,
                   acceptedOrder, respondedOrder>>
    /\ UNCHANGED counters

(***************************************************************************)
(* handle_connnection                                                      *)
(***************************************************************************)
\* The client of the connection being read from sends a request, or closes
\* without sending.  Bytes that reach the socket before the read call wait
\* there and are seen by the read in the same way, so they are shown arriving
\* during the call.
ClientSend ==
    /\ pc = "read"
    /\ stream \in Conns
    /\ inbox[stream] = Quiet
    /\ \E data \in Requests :
          inbox' = [inbox EXCEPT ![stream] =
                       IF data = <<>> THEN [data |-> <<>>, fin |-> TRUE]
                       ELSE [data |-> data, fin |-> FALSE]]
    /\ UNCHANGED <<pc, cause, backlog, connected, disk, changes, stream,
                   locals, open, trace, history, acceptedOrder,
                   respondedOrder, counters>>

\* A read that returns at once, with nothing when nothing has arrived.
ReadReady_nonblocking(c) == TRUE

\* stream.read blocks (the socket has no timeout and is not non-blocking)
\* until the client has sent data or has closed.
ReadReady(c) == inbox[c].data # <<>> \/ inbox[c].fin

\* stream.read(&mut buffer) returns Ok(n): it copies n of the bytes sent into
\* the buffer and takes them off the socket.
Read ==
    /\ pc = "read"
    /\ ReadReady(stream)
    /\ \E n \in ReadLens(inbox[stream].data) :
          /\ buffer' = ReadInto(buffer, inbox[stream].data, n)
          /\ received' = [received EXCEPT ![stream] =
                             SubSeq(inbox[stream].data, 1, n)]
          /\ inbox' = [inbox EXCEPT ![stream].data = SubSeq(@, n + 1, Len(@))]
    /\ reads' = [reads EXCEPT ![stream] = @ + 1]
    /\ trace' = [trace EXCEPT ![stream] = Append(@, "Read")]
    /\ pc' = Succ("read")
    /\ UNCHANGED <<cause, backlog, connected, disk, changes, stream, status,
                   filename, status_line, contents, response, open, statusOf,
                   responseOf, diskAt, delivered, writes, acceptedOrder,
                   respondedOrder, fileReads>>

\* stream.read(&mut buffer) returns Err.
ReadFail ==
    /\ pc = "read"
    /\ Panic("read")
    /\ UNCHANGED <<backlog, connected, disk, changes, trace, history,
                   acceptedOrder, respondedOrder>>
    /\ UNCHANGED counters

\* let (status, filename) = if buffer.starts_with(get) ...;
\* let status_line = format!("HTTP/1.1 {}\r\n\r\n", status);
ClassifyStep ==
    /\ pc = "classify"
    /\ LET r == Classify(buffer)
       IN  /\ status' = r.status
           /\ filename' = r.filename
           /\ status_line' = StatusLine(r.status)
           /\ statusOf' = [statusOf EXCEPT ![stream] = r.status]
           /\ trace' = [trace EXCEPT ![stream] =
                  Append(@, IF r.filename = HelloPath THEN "Success"
                            ELSE "NotFound")]
    /\ pc' = Succ("classify")
    /\ UNCHANGED <<cause, backlog, connected, disk, changes, stream, buffer,
                   contents, response, open, received, responseOf, diskAt,
                   delivered, writes, acceptedOrder, respondedOrder>>
    /\ UNCHANGED <<inbox, counters>>

\* The file a connection's classification selected.
SelectedPath(c) == IF statusOf[c] = Status200 THEN HelloPath ELSE NotFoundPath

\* A handler that loads both pages whatever the classification.
FilesRead_both(fname) == Paths

\* The files one call of the handler opens: fs::read_to_string is called
\* once, with the selected file name.
FilesRead(fname) == {fname}

\* A handler that keeps the first content it loaded of each file.
LoadedBytes_cached(fname) ==
    LET prior == {c \in Conns : responseOf[c] # None /\ SelectedPath(c) = fname}
    IN  IF prior = {} THEN disk[fname].bytes
        ELSE diskAt[CHOOSE c \in prior : \A d \in prior : c <= d][fname].bytes

\* fs::read_to_string(filename) returning Ok: the file's bytes as they are on
\* disk at the time of the call.
LoadedBytes(fname) == disk[fname].bytes

\* let contents = fs::read_to_string(filename).unwrap();   (Ok)
\* let response = format!("{}{}", status_line, contents);
Load ==
    /\ pc = "load"
    /\ \A p \in FilesRead(filename) : ReadToStringOk(disk[p])
    /\ contents' = LoadedBytes(filename)
    /\ response' = Compose(status_line, LoadedBytes(filename))
    /\ responseOf' = [responseOf EXCEPT ![stream] =
                         Compose(status_line, LoadedBytes(filename))]
    /\ diskAt' = [diskAt EXCEPT ![stream] =
                     [p \in Paths |-> IF p \in FilesRead(filename)
                                      THEN disk[p] ELSE Missing]]
    /\ fileReads' = [fileReads EXCEPT ![stream] =
                        [p \in Paths |-> IF p \in FilesRead(filename)
                                         THEN @[p] + 1 ELSE @[p]]]
    /\ trace' = [trace EXCEPT ![stream] = Append(@, "Loaded")]
    /\ pc' = Succ("load")
    /\ UNCHANGED <<cause, backlog, connected, disk, changes, stream, buffer,
                   status, filename, status_line, open, received, statusOf,
                   delivered, writes, acceptedOrder, respondedOrder, inbox,
                   reads>>

\* fs::read_to_string(filename) returns Err: the file is missing or is not
\* UTF-8.
LoadFail ==
    /\ pc = "load"
    /\ \E p \in FilesRead(filename) : ~ReadToStringOk(disk[p])
    /\ Panic("load")
    /\ fileReads' = [fileReads EXCEPT ![stream] =
                        [p \in Paths |-> IF p \in FilesRead(filename)
                                         THEN @[p] + 1 ELSE @[p]]]
    /\ UNCHANGED <<backlog, connected, disk, changes, trace, history,
                   acceptedOrder, respondedOrder, reads>>

\* stream.write(response.as_bytes()) returns Ok(n): the socket took the
\* first n bytes of the response; the count is not looked at.
Write ==
    /\ pc = "write"
    /\ \E n \in WriteLens(Len(response)) :
          delivered' = [delivered EXCEPT ![stream] =
                           @ \o SubSeq(response, 1, n)]
    /\ writes' = [writes EXCEPT ![stream] = @ + 1]
    /\ respondedOrder' = Append(respondedOrder, stream)
    /\ pc' = Succ("write")
    /\ UNCHANGED <<cause, backlog, connected, disk, changes, stream, locals,
                   open, trace, received, statusOf, responseOf, diskAt,
                   acceptedOrder>>
    /\ UNCHANGED <<inbox, counters>>

\* stream.write(response.as_bytes()) returns Err: the socket took nothing.
WriteFail ==
    /\ pc = "write"
    /\ Panic("write")
    /\ UNCHANGED <<backlog, connected, disk, changes, trace, history,
                   acceptedOrder, respondedOrder>>
    /\ UNCHANGED counters

\* stream.flush().unwrap()
Flush ==
    /\ pc = "flush"
    /\ IF FlushOk
       THEN /\ trace' = [trace EXCEPT ![stream] = Append(@, "Responded")]
            /\ pc' = Succ("flush")
            /\ UNCHANGED <<cause, stream, locals, open, inbox>>
       ELSE /\ Panic("flush")
            /\ UNCHANGED trace
    /\ UNCHANGED <<backlog, connected, disk, changes, history, acceptedOrder,
                   respondedOrder, counters>>

\* The handler's closing brace: the locals go out of scope and the stream is
\* dropped, which closes the connection and discards what was not read.
Return ==
    /\ pc = "return"
    /\ open' = [open EXCEPT ![stream] = FALSE]
    /\ inbox' = [inbox EXCEPT ![stream] = Quiet]
    /\ trace' = [trace EXCEPT ![stream] = Append(@, "Closed")]
    /\ stream' = 0
    /\ buffer' = None /\ status' = None /\ filename' = ""
    /\ status_line' = None /\ contents' = None /\ response' = None
    /\ pc' = Succ("return")
    /\ UNCHANGED <<cause, backlog, connected, disk, changes, history,
                   acceptedOrder, respondedOrder, counters>>

(***************************************************************************)
(* The file system's owner.                                                *)
(***************************************************************************)
\* Somebody replaces, damages or removes one of the two files.
SetFile ==
    /\ cause = ""
    /\ changes < MaxFileChanges
    /\ \E p \in Paths : \E f \in FileChoices(p) \ {disk[p]} :
          disk' = [disk EXCEPT ![p] = f]
    /\ changes' = changes + 1
    /\ UNCHANGED <<pc, cause, backlog, connected, stream, locals, open, trace,
                   history, acceptedOrder, respondedOrder>>
    /\ UNCHANGED <<inbox, counters>>

Next ==
    \/ Bind
    \/ BindFail
    \/ Connect
    \/ Accept
    \/ AcceptFail
    \/ ClientSend
    \/ Read
    \/ ReadFail
    \/ ClassifyStep
    \/ Load
    \/ LoadFail
    \/ Write
    \/ WriteFail
    \/ Flush
    \/ Return
    \/ SetFile

Spec == Init /\ [][Next]_vars

(***************************************************************************)
(* Vocabulary of the properties.  The byte strings are written out here,   *)
(* independently of the definitions the actions use.                       *)
(***************************************************************************)
\* "GET / HTTP/1.1\r\n": 16 bytes
GetLiteral == <<71, 69, 84, 32, 47, 32, 72, 84, 84, 80, 47, 49, 46, 49, 13, 10>>
\* "HTTP/1.1 200 OK\r\n\r\n"
Head200 ==
    <<72, 84, 84, 80, 47, 49, 46, 49, 32, 50, 48, 48, 32, 79, 75, 13, 10, 13,
      10>>
\* "HTTP/1.1 404 NOT FOUND\r\n\r\n"
Head404 ==
    <<72, 84, 84, 80, 47, 49, 46, 49, 32, 52, 48, 52, 32, 78, 79, 84, 32, 70,
      79, 85, 78, 68, 13, 10, 13, 10>>
Text200 == <<50, 48, 48, 32, 79, 75>>
Text404 == <<52, 48, 52, 32, 78, 79, 84, 32, 70, 79, 85, 78, 68>>

IsPrefix(a, b) == Len(a) <= Len(b) /\ \A i \in 1..Len(a) : a[i] = b[i]

\* The bytes r begin with the GET pattern.
BeginsWithGet(r) == IsPrefix(GetLiteral, r)

Classified(c) == statusOf[c] # None
Composed(c) == responseOf[c] # None
Closed(c) == trace[c] # <<>> /\ trace[c][Len(trace[c])] = "Closed"
\* Accepted and not yet closed by the handler's return.
Incomplete(c) == trace[c] # <<>> /\ trace[c][Len(trace[c])] # "Closed"

ChainSuccess ==
    <<"Accepted", "Read", "Success", "Loaded", "Responded", "Closed">>
ChainNotFound ==
    <<"Accepted", "Read", "NotFound", "Loaded", "Responded", "Closed">>

(***************************************************************************)
(* C1.  A connection whose read returned bytes that begin with             *)
(* "GET / HTTP/1.1\r\n" (a literal of 16 bytes) is given the status        *)
(* "200 OK", and its response's body is the content of the success file at *)
(* the time of the load, whatever follows the literal, a buffer filled to  *)
(* all its 512 bytes included.                                             *)
(***************************************************************************)
C1_GetPrefixIsSuccess ==
    \A c \in Conns :
       (Classified(c) /\ BeginsWithGet(received[c])) =>
          /\ statusOf[c] = Text200
          /\ Composed(c) =>
                responseOf[c] = Head200 \o diskAt[c][HelloPath].bytes

\* A read that filled the 512 bytes, beginning with the pattern, was
\* answered with the success page.
C1_Witness ==
    \E c \in Conns :
       /\ Len(received[c]) = 512
       /\ BeginsWithGet(received[c])
       /\ responseOf[c] = Head200 \o <<72, 105>>

(***************************************************************************)
(* C2, as amended.  A connection whose read returned bytes that do not     *)
(* begin with the GET pattern (nothing at all, another method, path or     *)
(* version, or fewer than 16 bytes) is given the status "404 NOT FOUND",   *)
(* and its response's body is the content of the not-found file at the     *)
(* time of the load; no status other than the two is ever selected.        *)
(***************************************************************************)
C2_OtherIsNotFound ==
    \A c \in Conns :
       /\ statusOf[c] \in {None, Text200, Text404}
       /\ (Classified(c) /\ (~BeginsWithGet(received[c])
                             \/ Len(received[c]) < 16)) =>
             /\ statusOf[c] = Text404
             /\ Composed(c) =>
                   responseOf[c] = Head404 \o diskAt[c][NotFoundPath].bytes

\* A read of 15 bytes, the pattern without its last byte, was answered with
\* the not-found page.
C2_Witness ==
    \E c \in Conns :
       /\ Len(received[c]) = 15
       /\ IsPrefix(received[c], GetLiteral)
       /\ responseOf[c] = Head404 \o <<78, 111>>

\* C2 as stated: every read of fewer than 17 bytes is answered 404.
C2_Original ==
    \A c \in Conns :
       (Classified(c) /\ (~BeginsWithGet(received[c])
                          \/ Len(received[c]) < 17)) =>
          statusOf[c] = Text404

(***************************************************************************)
(* C3.  Every composed response is "HTTP/1.1 ", the status text "200 OK"   *)
(* or "404 NOT FOUND", one "\r\n\r\n", and then the bytes of the selected  *)
(* file as they were on disk, with nothing in between.                     *)
(***************************************************************************)
C3_ResponseFormat ==
    \A c \in Conns :
       Composed(c) =>
          \/ /\ statusOf[c] = Text200
             /\ responseOf[c] =
                   <<72, 84, 84, 80, 47, 49, 46, 49, 32>> \o Text200
                      \o <<13, 10, 13, 10>> \o diskAt[c][HelloPath].bytes
          \/ /\ statusOf[c] = Text404
             /\ responseOf[c] =
                   <<72, 84, 84, 80, 47, 49, 46, 49, 32>> \o Text404
                      \o <<13, 10, 13, 10>> \o diskAt[c][NotFoundPath].bytes

\* A success response and a not-found response have both been composed.
C3_Witness ==
    /\ \E c \in Conns : responseOf[c] = Head200 \o <<72, 105>>
    /\ \E c \in Conns : responseOf[c] = Head404 \o <<78, 111>>

(***************************************************************************)
(* C4.  Once an unwrap() has failed (at bind, accept, read, file load or   *)
(* write) the process is gone: the thread is at no statement, it holds no  *)
(* connection, and from then on no connection is accepted, no stage of any *)
(* connection is entered and no byte is read, composed or written.         *)
(***************************************************************************)
C4_FailureEndsProcess ==
    /\ [](cause # "" => (pc = "aborted" /\ stream = 0
                         /\ \A c \in Conns : ~open[c]))
    /\ [][cause # "" =>
             /\ cause' = cause
             /\ pc' = pc
             /\ trace' = trace
             /\ history' = history
             /\ backlog' = backlog
             /\ acceptedOrder' = acceptedOrder
             /\ respondedOrder' = respondedOrder]_vars

\* The file load failed while a later connection was waiting to be accepted.
C4_Witness ==
    /\ cause = "load"
    /\ backlog # <<>>
    /\ \E c \in Conns : Incomplete(c)

(***************************************************************************)
(* C5.  When the handling of a connection has failed (read, file load,     *)
(* write or flush), not one byte of a response has been delivered to that  *)
(* connection.                                                             *)
(***************************************************************************)
C5_NoBytesOnFailure ==
    cause \in {"read", "load", "write", "flush"} =>
       \A c \in Conns : Incomplete(c) => delivered[c] = <<>>

\* The write call failed on a connection whose response was composed.
C5_Witness ==
    /\ cause = "write"
    /\ \E c \in Conns : Incomplete(c) /\ Composed(c) /\ delivered[c] = <<>>

(***************************************************************************)
(* C6.  A connection the handler has returned from, and so closed, has     *)
(* been sent the whole response: status line and all of the file.          *)
(***************************************************************************)
C6_FullResponseWritten ==
    \A c \in Conns : Closed(c) => delivered[c] = responseOf[c]

(***************************************************************************)
(* C7.  A connection handled without failure has received the response     *)
(* exactly once, is closed, and nothing of it is kept: the handler's       *)
(* locals are gone when no connection is being handled.                    *)
(***************************************************************************)
C7_ExactlyOneResponse ==
    /\ \A c \in Conns :
          Closed(c) =>
             /\ writes[c] = 1
             /\ delivered[c] = responseOf[c]
             /\ ~open[c]
    /\ stream = 0 =>
          /\ buffer = None /\ status = None /\ filename = ""
          /\ status_line = None /\ contents = None /\ response = None

(***************************************************************************)
(* C8.  Connections are accepted in the order they arrived and handled one *)
(* at a time: every connection accepted before the latest one has been     *)
(* returned from, at most one connection is between accept and close, and  *)
(* the responses were written in the order of acceptance.                  *)
(***************************************************************************)
C8_OneAtATime ==
    /\ \A i \in 1..Len(acceptedOrder) : acceptedOrder[i] = i
    /\ \A i \in 1..(Len(acceptedOrder) - 1) : Closed(acceptedOrder[i])
    /\ Cardinality({c \in Conns : Incomplete(c)}) <= 1
    /\ IsPrefix(respondedOrder, acceptedOrder)
    /\ \A c \in Conns : Incomplete(c) /\ cause = "" => stream = c

\* The second connection arrived while the first was being handled, and both
\* have been answered, the first one first.
C8_Witness ==
    /\ respondedOrder = <<1, 2>>
    /\ Closed(1)
    /\ Incomplete(2)

(***************************************************************************)
(* C9.  Two connections whose reads returned the same bytes, and whose     *)
(* files were the same when they were loaded, are sent the same bytes.     *)
(***************************************************************************)
C9_SameRequestSameResponse ==
    \A c1, c2 \in Conns :
       (/\ Closed(c1) /\ Closed(c2)
        /\ received[c1] = received[c2]
        /\ diskAt[c1] = diskAt[c2]) =>
          delivered[c1] = delivered[c2]

(***************************************************************************)
(* C10.  The stages a connection has gone through are always a beginning   *)
(* of Accepted, Read, Success or NotFound, Loaded, Responded, Closed: each *)
(* stage once, in this order.  A connection that is part way through is    *)
(* the one being handled, unless the process has aborted.                  *)
(***************************************************************************)
C10_StageChain ==
    \A c \in Conns :
       /\ IsPrefix(trace[c], ChainSuccess) \/ IsPrefix(trace[c], ChainNotFound)
       /\ Incomplete(c) => (stream = c \/ cause # "")
       /\ (Len(trace[c]) >= 3 /\ trace[c][3] = "Success") <=>
             (Classified(c) /\ statusOf[c] = Text200)

\* One connection has completed each of the two chains.
C10_Witness ==
    /\ \E c \in Conns : trace[c] = ChainSuccess
    /\ \E c \in Conns : trace[c] = ChainNotFound

(***************************************************************************)
(* C11, as amended.  A client that connects and neither sends nor closes   *)
(* keeps the handler in its read call: the call returns Ok only once data  *)
(* has arrived or the client has closed, and there is no timeout.  As long *)
(* as the handler is in the read call no connection is accepted, no other  *)
(* connection makes progress and nothing is written.  A client that has    *)
(* sent only a part of a request does not keep the read call waiting: the  *)
(* call can return with what has arrived.                                  *)
(***************************************************************************)
\* A beginning of the request line that is not yet the whole pattern.
PartialRequest(d) ==
    d # <<>> /\ Len(d) < Len(GetLiteral) /\ IsPrefix(d, GetLiteral)

C11_SilentClientStalls ==
    /\ [][(pc = "read" /\ pc' # "read" /\ cause' = "") =>
             (inbox[stream].data # <<>> \/ inbox[stream].fin)]_vars
    /\ [][pc = "read" =>
             /\ pc' \in {"read", "classify", "aborted"}
             /\ acceptedOrder' = acceptedOrder
             /\ respondedOrder' = respondedOrder
             /\ delivered' = delivered
             /\ \A c \in Conns : c # stream => trace'[c] = trace[c]]_vars
    /\ [](pc = "read" /\ PartialRequest(inbox[stream].data) => ENABLED Read)

\* The handler waits in read for a silent client while another connection
\* waits to be accepted.
C11_Witness ==
    /\ pc = "read"
    /\ inbox[stream] = Quiet
    /\ backlog # <<>>

\* C11 as stated: neither a silent client's read call nor the read call of a
\* client that sent a partial request ever returns.
C11_Original ==
    [][(/\ pc = "read"
        /\ ~inbox[stream].fin
        /\ inbox[stream].data = <<>> \/ PartialRequest(inbox[stream].data)) =>
          pc' \in {"read", "aborted"}]_vars

(***************************************************************************)
(* C12.  The handler calls read at most once per connection, the bytes it  *)
(* got are at most 512, and while the connection is handled the buffer is  *)
(* exactly those bytes followed by zeros: what the client sent beyond them *)
(* stays unread.  A request whose GET line is split, the one read having   *)
(* returned only a part of the pattern, is classified not-found.           *)
(***************************************************************************)
C12_OneReadOnly ==
    \A c \in Conns :
       /\ reads[c] <= 1
       /\ Len(received[c]) <= 512
       /\ Classified(c) => reads[c] = 1
       /\ (stream = c /\ reads[c] = 1) =>
             buffer = [i \in 1..512 |->
                          IF i <= Len(received[c]) THEN received[c][i] ELSE 0]
       /\ (/\ stream = c /\ Classified(c)
           /\ Len(received[c]) < 16
           /\ BeginsWithGet(received[c] \o inbox[c].data)) =>
             statusOf[c] = Text404

\* The client sent the whole pattern, the read returned its first 15 bytes,
\* the last byte is still unread, and the request was classified not-found.
C12_Witness ==
    \E c \in Conns :
       /\ stream = c
       /\ Len(received[c]) = 15
       /\ received[c] \o inbox[c].data = GetLiteral
       /\ statusOf[c] = Text404

(***************************************************************************)
(* C13.  The body of every response is the content the selected file has   *)
(* on disk at the moment of that connection's load step: nothing loaded    *)
(* for an earlier connection is used again.                                *)
(***************************************************************************)
C13_FreshFileRead ==
    [][\A c \in Conns :
          (responseOf[c] = None /\ responseOf'[c] # None) =>
             /\ responseOf'[c] =
                   IF statusOf[c] = Text200
                   THEN Head200 \o disk[HelloPath].bytes
                   ELSE Head404 \o disk[NotFoundPath].bytes
             /\ contents' =
                   IF statusOf[c] = Text200
                   THEN disk[HelloPath].bytes
                   ELSE disk[NotFoundPath].bytes]_vars

\* The success file was changed between two connections that both asked for
\* it: the first got the old content, the second the new one.
C13_Witness ==
    /\ responseOf[1] = Head200 \o <<72, 105>>
    /\ responseOf[2] = Head200 \o <<72, 111>>

(***************************************************************************)
(* C14, as amended.  The file the classification selected must exist and   *)
(* be UTF-8 text when it is loaded, or the process aborts: the load step   *)
(* goes on to the write exactly when the selected file is readable, and    *)
(* aborts the process otherwise, whatever the state of the other file.     *)
(***************************************************************************)
Readable(f) == f.present /\ Utf8Valid(f.bytes)

C14_SelectedFileNeeded ==
    [][(pc = "load" /\ pc' # "load") =>
          IF Readable(disk[filename])
          THEN pc' = "write" /\ cause' = ""
          ELSE pc' = "aborted" /\ cause' = "load"]_vars

\* The process aborted in the load step of a connection whose selected file
\* was missing or not UTF-8.
C14_Witness ==
    /\ cause = "load"
    /\ \E c \in Conns :
          /\ Incomplete(c)
          /\ fileReads[c][SelectedPath(c)] = 1
          /\ ~Readable(disk[SelectedPath(c)])

\* C14 as stated: no load step succeeds while either of the two files is
\* missing or unreadable.
C14_Original ==
    [][(pc = "load" /\ pc' = "write") =>
          \A p \in Paths : Readable(disk[p])]_vars

(***************************************************************************)
(* C15.  The buffer's bytes beyond those the read returned are zero, and   *)
(* they never make a request a success: a request is classified success    *)
(* if and only if the read returned at least 16 bytes and the first 16 are *)
(* the literal "GET / HTTP/1.1\r\n", byte for byte.                        *)
(***************************************************************************)
C15_ZeroFillNeverMatches ==
    \A c \in Conns :
       /\ Classified(c) =>
             (statusOf[c] = Text200 <=>
                 (/\ Len(received[c]) >= 16
                  /\ SubSeq(received[c], 1, 16) = GetLiteral))
       /\ (stream = c /\ buffer # None) =>
             \A i \in (Len(received[c]) + 1)..512 : buffer[i] = 0

\* The read returned the 15 first bytes of the literal, the 16th byte of the
\* buffer is the zero fill, and the request was classified not-found.
C15_Witness ==
    \E c \in Conns :
       /\ stream = c
       /\ Len(received[c]) = 15
       /\ IsPrefix(received[c], GetLiteral)
       /\ buffer[16] = 0
       /\ pc = "load"
       /\ statusOf[c] = Text404

(***************************************************************************)
(* C16.  The handler of a connection calls read_to_string at most once,    *)
(* and only for the file its classification selected; a composed response  *)
(* comes from exactly one read of that file and none of the other; and     *)
(* when the load aborts the process, it is the selected file that is       *)
(* missing or unreadable.                                                  *)
(***************************************************************************)
Selected(c) == IF statusOf[c] = Text200 THEN "html/hello.html" ELSE "html/404.html"
Unselected(c) == IF statusOf[c] = Text200 THEN "html/404.html" ELSE "html/hello.html"

C16_OnlySelectedFileRead ==
    \A c \in Conns :
       /\ fileReads[c]["html/hello.html"] + fileReads[c]["html/404.html"] <= 1
       /\ \A p \in {"html/hello.html", "html/404.html"} :
             fileReads[c][p] > 0 => (Classified(c) /\ p = Selected(c))
       /\ Composed(c) =>
             (fileReads[c][Selected(c)] = 1 /\ fileReads[c][Unselected(c)] = 0)
       /\ (cause = "load" /\ Incomplete(c)) => ~Readable(disk[Selected(c)])

\* A connection was answered and closed while the file it did not select is
\* missing, and that file was never opened for it.
C16_Witness ==
    \E c \in Conns :
       /\ Closed(c)
       /\ Composed(c)
       /\ fileReads[c][Unselected(c)] = 0
       /\ ~disk[Unselected(c)].present
       /\ cause = ""

(***************************************************************************)
(* C17.  Within a connection the write call comes after the read and the   *)
(* file load have both succeeded: a connection that was written to has had *)
(* its read and its load, what it was sent is a beginning of the response  *)
(* composed for it, and when the read or the load aborts the process, no   *)
(* write call was made and no byte was sent on that connection.            *)
(***************************************************************************)
C17_NoWriteBeforeLoad ==
    \A c \in Conns :
       /\ (writes[c] > 0 \/ delivered[c] # <<>>) =>
             /\ reads[c] = 1
             /\ Composed(c)
             /\ fileReads[c][Selected(c)] = 1
       /\ IsPrefix(delivered[c], responseOf[c])
       /\ (cause \in {"read", "load"} /\ Incomplete(c)) =>
             (writes[c] = 0 /\ delivered[c] = <<>>)

\* The load failed after a successful read, and nothing had been written.
C17_Witness ==
    /\ cause = "load"
    /\ \E c \in Conns :
          /\ Incomplete(c)
          /\ reads[c] = 1
          /\ writes[c] = 0
          /\ delivered[c] = <<>>

====
